---- MODULE Spec2Model ----
(***************************************************************************)
(* Model of rider_sim.py: class RiderTrackSimulation, a simpy discrete-    *)
(* event simulation of riders moving through an entry gate, three zones    *)
(* and an exit gate.  One step of the model is one env.step(): the event   *)
(* at the head of the schedule is popped and its callbacks are run.        *)
(* Virtual time is counted in ticks of 0.5 time units (the sampling        *)
(* period), so every time of the program is TicksPerUnit times larger here.*)
(***************************************************************************)
EXTENDS Integers, Sequences, FiniteSets, TLC

\* ---------------------------------------------------------------- bounds
MaxCap == 2
MaxEXP == 2
MaxFOC == 1

\* ------------------------------------------------------ program constants
\* yield self.env.timeout(0.5): one tick is 0.5 time units
TicksPerUnit == 2
\* timeout(0.5) in ticks
SampleInterval == 1
\* max_time = 1000 in track_queue / track_zone_utilization
max_time == 1000 * TicksPerUnit
\* max_simulation_time = 1000 in run()
max_simulation_time == 1000 * TicksPerUnit

\* simpy.core priorities: an URGENT event goes before a NORMAL one of the same time
URGENT == "URGENT"
NORMAL == "NORMAL"
PrioLeq(a, b) == a = URGENT \/ b = NORMAL

\* a Zone B time with which one rider's whole course (1 + 2 + LongTime + 1 + 1
\* ticks) takes exactly the ceiling
LongTime == max_simulation_time - (1 + 2 + 1 + 1)

\* the dwell times <<tEnter, tA, tB, tC, tExit>> tried, in ticks
DurationProfiles ==
    { <<1, 10, 10, 10, 1>>,        \* 0.5, 5, 5, 5, 0.5
      <<0, 2, 3, 1, 0>>,           \* zero gate times, unequal zones
      <<1, 2, LongTime, 1, 1>> }   \* the course does not fit under the ceiling

\* parameter dictionaries with a negative batch size: range(1, n + 1) is empty
NegativeBatchConfigs ==
    { [nEXP |-> b[1], nFOC |-> b[2], capZone |-> 1,
       tEnter |-> 1, tA |-> 10, tB |-> 10, tC |-> 10, tExit |-> 1] :
        b \in {<<-1, 0>>, <<0, -1>>, <<-1, MaxFOC>>} }

Configs ==
    { [nEXP |-> e, nFOC |-> f, capZone |-> c,
       tEnter |-> d[1], tA |-> d[2], tB |-> d[3], tC |-> d[4], tExit |-> d[5]] :
        e \in 0..MaxEXP, f \in 0..MaxFOC, c \in 0..MaxCap, d \in DurationProfiles }
    \cup NegativeBatchConfigs

Zones == {"A", "B", "C"}

\* process identities: <<name, number>>
INST == <<"INST", 1>>
Riders == {INST} \cup {<<"EXP", i>> : i \in 1..MaxEXP} \cup {<<"FOC", i>> : i \in 1..MaxFOC}
TrackQueueProc == <<"track_queue", 0>>
TrackZoneProc(z) == <<z, 0>>
InjectExpProc == <<"inject_exp_riders", 0>>
InjectFocProc == <<"inject_foc_riders", 0>>
UntilProc == <<"until", 0>>
Samplers == {TrackQueueProc} \cup {TrackZoneProc(z) : z \in Zones}
Injectors == {InjectExpProc, InjectFocProc}

Unset == -1

VARIABLES
    pc,                 \* "new", "constructed", "running", "returned", "error"
    params,             \* self.params
    now,                \* self.env.now
    queue,              \* self.env._queue, in pop order
    users,              \* zone -> Resource.users (riders holding a slot)
    put_queue,          \* zone -> Resource.put_queue (requests not yet granted)
    rider_events,       \* self.rider_events
    queue_stats,        \* self.queue_stats
    zone_stats,         \* self.zone_stats
    riders_in_queue,    \* self.riders_in_queue
    inst_exit_time,     \* self.inst_exit_time, Unset while the attribute is missing
    last_exp_exit_time, \* self.last_exp_exit_time
    total_sim_time,     \* self.total_sim_time
    rpc,                \* rider -> position in rider_process
    current_time,       \* sampler -> its local current_time
    ipc,                \* injector -> position in inject_*_riders
    result              \* what run() returned

vars == <<pc, params, now, queue, users, put_queue, rider_events, queue_stats,
          zone_stats, riders_in_queue, inst_exit_time, last_exp_exit_time,
          total_sim_time, rpc, current_time, ipc, result>>

\* ------------------------------------------------------------- simpy core
\* mutant: an event goes before the events with an equal (time, priority) key
ScheduleLifo(q, ev) ==
    LET k == Cardinality({i \in 1..Len(q) :
                 \/ q[i].time < ev.time
                 \/ q[i].time = ev.time /\ q[i].priority = URGENT /\ ev.priority = NORMAL})
    IN  SubSeq(q, 1, k) \o <<ev>> \o SubSeq(q, k + 1, Len(q))

\* Environment.schedule: heappush of (now + delay, priority, eid, event); the
\* eid grows with every call, so an event goes behind all events with an equal
\* (time, priority) key.
Schedule(q, ev) ==
    LET k == Cardinality({i \in 1..Len(q) :
                 \/ q[i].time < ev.time
                 \/ q[i].time = ev.time /\ PrioLeq(q[i].priority, ev.priority)})
    IN  SubSeq(q, 1, k) \o <<ev>> \o SubSeq(q, k + 1, Len(q))

Ev(t, p, k, who, z) == [time |-> t, priority |-> p, kind |-> k, proc |-> who, zone |-> z]

\* mutant: the delay of a timeout is dropped
TimeoutNoDelay(q, t, delay, who) == Schedule(q, Ev(t, NORMAL, "Timeout", who, ""))

\* Timeout(env, delay) for the process who
Timeout(q, t, delay, who) == Schedule(q, Ev(t + delay, NORMAL, "Timeout", who, ""))

\* env.process(generator): Initialize is scheduled URGENT at the current time
Process(q, t, who) == Schedule(q, Ev(t, URGENT, "Initialize", who, ""))

\* env.process for each process of the sequence whos, in order: the Initialize
\* events share the key (t, URGENT) and get growing eids, so they go, in order,
\* behind the events that were scheduled with a key up to (t, URGENT)
ProcessAll(q, t, whos) ==
    LET k == Cardinality({i \in 1..Len(q) : q[i].time < t \/ (q[i].time = t /\ q[i].priority = URGENT)})
    IN  SubSeq(q, 1, k)
        \o [i \in 1..Len(whos) |-> Ev(t, URGENT, "Initialize", whos[i], "")]
        \o SubSeq(q, k + 1, Len(q))

\* the generator returned: Process._resume schedules the process event itself
ProcessEnd(q, t, who) == Schedule(q, Ev(t, NORMAL, "ProcessEnd", who, ""))

\* mutant: one request too many is granted
DoPutOffByOne(u, cap) == Len(u) <= cap

\* Resource._do_put: the request is granted while a slot is free
DoPut(u, cap) == Len(u) < cap

\* mutant: a free slot goes to the request that was made last
TriggerPutLast(s, z, t, cap) ==
    IF s.put_queue # <<>> /\ DoPut(s.users, cap)
    THEN LET n == Len(s.put_queue)
         IN  [users     |-> Append(s.users, s.put_queue[n]),
              put_queue |-> SubSeq(s.put_queue, 1, n - 1),
              queue     |-> Schedule(s.queue, Ev(t, NORMAL, "Request", s.put_queue[n], z))]
    ELSE s

\* BaseResource._trigger_put on the state s = [users, put_queue, queue] of one
\* resource: _do_put returns None, so the loop looks at the head request only.
TriggerPut(s, z, t, cap) ==
    IF s.put_queue # <<>> /\ DoPut(s.users, cap)
    THEN [users     |-> Append(s.users, Head(s.put_queue)),
          put_queue |-> Tail(s.put_queue),
          queue     |-> Schedule(s.queue, Ev(t, NORMAL, "Request", Head(s.put_queue), z))]
    ELSE s

\* resource.request() by rider r: Put.__init__ appends to put_queue and calls
\* _trigger_put
Request(s, z, r, t, cap) ==
    TriggerPut([s EXCEPT !.put_queue = Append(@, r)], z, t, cap)

RemoveFirst(seq, x) ==
    IF \E i \in 1..Len(seq) : seq[i] = x
    THEN LET i == CHOOSE j \in 1..Len(seq) :
                      seq[j] = x /\ \A k \in 1..(j - 1) : seq[k] # x
         IN  SubSeq(seq, 1, i - 1) \o SubSeq(seq, i + 1, Len(seq))
    ELSE seq

\* resource.release(request) at the end of a with block: Get.__init__ calls
\* _trigger_get, _do_get removes the request from users and succeeds the
\* Release event, whose callback is _trigger_put
Release(s, z, r, t) ==
    [s EXCEPT !.users = RemoveFirst(@, r),
              !.queue = Schedule(@, Ev(t, NORMAL, "Release", r, z))]

ResState(z, q) == [users |-> users[z], put_queue |-> put_queue[z], queue |-> q]

\* ------------------------------------------------------------ record_event
Event(r, zone, action, t) ==
    [rider_id |-> r, rider_type |-> r[1], zone |-> zone, action |-> action, time |-> t]

\* ------------------------------------------------------------------- Init
\* A parameter dictionary has been chosen; RiderTrackSimulation(params) has not
\* run yet.
Init ==
    /\ pc = "new"
    /\ params \in Configs
    /\ now = 0
    /\ queue = <<>>
    /\ users = [z \in Zones |-> <<>>]
    /\ put_queue = [z \in Zones |-> <<>>]
    /\ rider_events = <<>>
    /\ queue_stats = <<>>
    /\ zone_stats = [z \in Zones |-> <<>>]
    /\ riders_in_queue = 0
    /\ inst_exit_time = Unset
    /\ last_exp_exit_time = 0
    /\ total_sim_time = 0
    /\ rpc = [r \in Riders |-> "none"]
    /\ current_time = [s \in Samplers |-> 0]
    /\ ipc = [i \in Injectors |-> "none"]
    /\ result = <<>>

\* ---------------------------------------------------------------- __init__
\* mutant: a Resource is made with any capacity
CapacityUnchecked(cap) == TRUE

\* simpy.Resource raises ValueError for a capacity <= 0
CapacityAccepted(cap) == cap > 0

Construct ==
    /\ pc = "new"
    /\ CapacityAccepted(params.capZone)
    /\ pc' = "constructed"
    /\ queue' = Process(queue, now, INST)
    /\ rpc' = [rpc EXCEPT ![INST] = "init"]
    /\ UNCHANGED <<params, now, users, put_queue, rider_events, queue_stats, zone_stats,
                   riders_in_queue, inst_exit_time, last_exp_exit_time, total_sim_time,
                   current_time, ipc, result>>

ConstructError ==
    /\ pc = "new"
    /\ ~CapacityAccepted(params.capZone)
    /\ pc' = "error"
    /\ UNCHANGED <<params, now, queue, users, put_queue, rider_events, queue_stats,
                   zone_stats, riders_in_queue, inst_exit_time, last_exp_exit_time,
                   total_sim_time, rpc, current_time, ipc, result>>

\* --------------------------------------------------------------------- run
\* mutant: the Focus injector is created before the Experienced injector
RunProcessesFocFirst ==
    <<TrackQueueProc, TrackZoneProc("A"), TrackZoneProc("B"), TrackZoneProc("C"),
      InjectFocProc, InjectExpProc>>

\* the processes run() creates, lines 152-161
RunProcesses ==
    <<TrackQueueProc, TrackZoneProc("A"), TrackZoneProc("B"), TrackZoneProc("C"),
      InjectExpProc, InjectFocProc>>

\* run() up to the first env.step(): the six processes are created in this
\* order, then env.run(until=...) schedules the stop event URGENT at the ceiling
RunStart ==
    /\ pc = "constructed"
    /\ pc' = "running"
    /\ queue' = Schedule(ProcessAll(queue, now, RunProcesses),
                         Ev(now + max_simulation_time, URGENT, "Until", UntilProc, ""))
    /\ ipc' = [i \in Injectors |-> "init"]
    /\ UNCHANGED <<params, now, users, put_queue, rider_events, queue_stats, zone_stats,
                   riders_in_queue, inst_exit_time, last_exp_exit_time, total_sim_time,
                   rpc, current_time, result>>

\* Environment.step pops the head of the schedule and sets env.now
Stepping(kind) ==
    /\ pc = "running"
    /\ queue # <<>>
    /\ Head(queue).kind = kind
    /\ now' = Head(queue).time

\* ----------------------------------------------------------- rider_process
\* lines 72-79: enter the queue and request zone_a
RiderEnterQueue(r) ==
    /\ Stepping("Initialize") /\ Head(queue).proc = r
    /\ LET t == Head(queue).time
           s == Request(ResState("A", Tail(queue)), "A", r, t, params.capZone)
       IN  /\ riders_in_queue' = riders_in_queue + 1
           /\ rider_events' = Append(rider_events, Event(r, "Queue", "enter", t))
           /\ users' = [users EXCEPT !["A"] = s.users]
           /\ put_queue' = [put_queue EXCEPT !["A"] = s.put_queue]
           /\ queue' = s.queue
    /\ rpc' = [rpc EXCEPT ![r] = "reqA"]
    /\ UNCHANGED <<pc, params, queue_stats, zone_stats, inst_exit_time,
                   last_exp_exit_time, total_sim_time, current_time, ipc, result>>

\* mutant: Gate-enter is logged before Queue-exit
GateEventsSwapped(r, t) == <<Event(r, "EnterGate", "enter", t), Event(r, "Queue", "exit", t)>>

\* lines 82-84: what the rider logs when its zone_a request is granted
GateEvents(r, t) == <<Event(r, "Queue", "exit", t), Event(r, "EnterGate", "enter", t)>>

\* mutant: a granted request is taken up as soon as its time has come, whatever
\* its place among the events of that time
RiderGateAnyOrder(r) ==
    /\ pc = "running"
    /\ queue # <<>>
    /\ \E i \in 1..Len(queue) :
          /\ queue[i].time = Head(queue).time
          /\ queue[i].kind = "Request" /\ queue[i].proc = r /\ queue[i].zone = "A"
          /\ now' = queue[i].time
          /\ riders_in_queue' = riders_in_queue - 1
          /\ rider_events' = rider_events \o GateEvents(r, queue[i].time)
          /\ queue' = Timeout(SubSeq(queue, 1, i - 1) \o SubSeq(queue, i + 1, Len(queue)),
                              queue[i].time, params.tEnter, r)
    /\ rpc' = [rpc EXCEPT ![r] = "gate"]
    /\ UNCHANGED <<pc, params, users, put_queue, queue_stats, zone_stats, inst_exit_time,
                   last_exp_exit_time, total_sim_time, current_time, ipc, result>>

\* mutant: the rider leaves the queue without being taken off the count
RiderGateNoDecrement(r) ==
    /\ Stepping("Request") /\ Head(queue).proc = r /\ Head(queue).zone = "A"
    /\ LET t == Head(queue).time
       IN  /\ rider_events' = rider_events \o GateEvents(r, t)
           /\ queue' = Timeout(Tail(queue), t, params.tEnter, r)
    /\ rpc' = [rpc EXCEPT ![r] = "gate"]
    /\ UNCHANGED <<pc, params, users, put_queue, queue_stats, zone_stats, riders_in_queue,
                   inst_exit_time, last_exp_exit_time, total_sim_time, current_time, ipc,
                   result>>

\* lines 79-85: the zone_a request is granted
RiderGate(r) ==
    /\ Stepping("Request") /\ Head(queue).proc = r /\ Head(queue).zone = "A"
    /\ LET t == Head(queue).time
       IN  /\ riders_in_queue' = riders_in_queue - 1
           /\ rider_events' = rider_events \o GateEvents(r, t)
           /\ queue' = Timeout(Tail(queue), t, params.tEnter, r)
    /\ rpc' = [rpc EXCEPT ![r] = "gate"]
    /\ UNCHANGED <<pc, params, users, put_queue, queue_stats, zone_stats, inst_exit_time,
                   last_exp_exit_time, total_sim_time, current_time, ipc, result>>

\* mutant: the with block of zone_a ends at the gate, before Zone A
RiderZoneAReleasingGate(r) ==
    /\ Stepping("Timeout") /\ Head(queue).proc = r /\ rpc[r] = "gate"
    /\ LET t == Head(queue).time
           s == Release(ResState("A", Tail(queue)), "A", r, t)
       IN  /\ rider_events' = rider_events \o
                  <<Event(r, "EnterGate", "exit", t), Event(r, "ZoneA", "enter", t)>>
           /\ inst_exit_time' = IF r[1] = "INST" THEN t ELSE inst_exit_time
           /\ last_exp_exit_time' = IF r[1] = "EXP" THEN t ELSE last_exp_exit_time
           /\ users' = [users EXCEPT !["A"] = s.users]
           /\ queue' = Timeout(s.queue, t, params.tA, r)
    /\ rpc' = [rpc EXCEPT ![r] = "zoneA"]
    /\ UNCHANGED <<pc, params, put_queue, queue_stats, zone_stats, riders_in_queue,
                   total_sim_time, current_time, ipc, result>>

\* lines 85-95: the gate time is over; still inside "with self.zone_a.request()"
RiderZoneA(r) ==
    /\ Stepping("Timeout") /\ Head(queue).proc = r /\ rpc[r] = "gate"
    /\ LET t == Head(queue).time
       IN  /\ rider_events' = rider_events \o
                  <<Event(r, "EnterGate", "exit", t), Event(r, "ZoneA", "enter", t)>>
           /\ inst_exit_time' = IF r[1] = "INST" THEN t ELSE inst_exit_time
           /\ last_exp_exit_time' = IF r[1] = "EXP" THEN t ELSE last_exp_exit_time
           /\ queue' = Timeout(Tail(queue), t, params.tA, r)
    /\ rpc' = [rpc EXCEPT ![r] = "zoneA"]
    /\ UNCHANGED <<pc, params, users, put_queue, queue_stats, zone_stats, riders_in_queue,
                   total_sim_time, current_time, ipc, result>>

\* A rider leaves the with block of zone z1 (release) and requests zone z2
LeaveAndRequest(r, z1, z2, t) ==
    LET s1 == Release(ResState(z1, Tail(queue)), z1, r, t)
        s2 == Request(ResState(z2, s1.queue), z2, r, t, params.capZone)
    IN  /\ users' = [users EXCEPT ![z1] = s1.users, ![z2] = s2.users]
        /\ put_queue' = [put_queue EXCEPT ![z2] = s2.put_queue]
        /\ queue' = s2.queue

\* lines 95-100: Zone A is over: zone_a is released, zone_b requested
RiderLeaveA(r) ==
    /\ Stepping("Timeout") /\ Head(queue).proc = r /\ rpc[r] = "zoneA"
    /\ rider_events' = Append(rider_events, Event(r, "ZoneA", "exit", Head(queue).time))
    /\ LeaveAndRequest(r, "A", "B", Head(queue).time)
    /\ rpc' = [rpc EXCEPT ![r] = "reqB"]
    /\ UNCHANGED <<pc, params, queue_stats, zone_stats, riders_in_queue, inst_exit_time,
                   last_exp_exit_time, total_sim_time, current_time, ipc, result>>

\* lines 100-102: the zone_b request is granted
RiderZoneB(r) ==
    /\ Stepping("Request") /\ Head(queue).proc = r /\ Head(queue).zone = "B"
    /\ rider_events' = Append(rider_events, Event(r, "ZoneB", "enter", Head(queue).time))
    /\ queue' = Timeout(Tail(queue), Head(queue).time, params.tB, r)
    /\ rpc' = [rpc EXCEPT ![r] = "zoneB"]
    /\ UNCHANGED <<pc, params, users, put_queue, queue_stats, zone_stats, riders_in_queue,
                   inst_exit_time, last_exp_exit_time, total_sim_time, current_time, ipc,
                   result>>

\* lines 102-107: Zone B is over: zone_b is released, zone_c requested
RiderLeaveB(r) ==
    /\ Stepping("Timeout") /\ Head(queue).proc = r /\ rpc[r] = "zoneB"
    /\ rider_events' = Append(rider_events, Event(r, "ZoneB", "exit", Head(queue).time))
    /\ LeaveAndRequest(r, "B", "C", Head(queue).time)
    /\ rpc' = [rpc EXCEPT ![r] = "reqC"]
    /\ UNCHANGED <<pc, params, queue_stats, zone_stats, riders_in_queue, inst_exit_time,
                   last_exp_exit_time, total_sim_time, current_time, ipc, result>>

\* lines 107-109: the zone_c request is granted
RiderZoneC(r) ==
    /\ Stepping("Request") /\ Head(queue).proc = r /\ Head(queue).zone = "C"
    /\ rider_events' = Append(rider_events, Event(r, "ZoneC", "enter", Head(queue).time))
    /\ queue' = Timeout(Tail(queue), Head(queue).time, params.tC, r)
    /\ rpc' = [rpc EXCEPT ![r] = "zoneC"]
    /\ UNCHANGED <<pc, params, users, put_queue, queue_stats, zone_stats, riders_in_queue,
                   inst_exit_time, last_exp_exit_time, total_sim_time, current_time, ipc,
                   result>>

\* lines 109-114: Zone C is over: zone_c is released, the exit gate entered
RiderLeaveC(r) ==
    /\ Stepping("Timeout") /\ Head(queue).proc = r /\ rpc[r] = "zoneC"
    /\ LET t == Head(queue).time
           s == Release(ResState("C", Tail(queue)), "C", r, t)
       IN  /\ rider_events' = rider_events \o
                  <<Event(r, "ZoneC", "exit", t), Event(r, "ExitGate", "enter", t)>>
           /\ users' = [users EXCEPT !["C"] = s.users]
           /\ queue' = Timeout(s.queue, t, params.tExit, r)
    /\ rpc' = [rpc EXCEPT ![r] = "exit"]
    /\ UNCHANGED <<pc, params, put_queue, queue_stats, zone_stats, riders_in_queue,
                   inst_exit_time, last_exp_exit_time, total_sim_time, current_time, ipc,
                   result>>

\* lines 114-118: the exit time is over; the generator returns
RiderFinish(r) ==
    /\ Stepping("Timeout") /\ Head(queue).proc = r /\ rpc[r] = "exit"
    /\ rider_events' = Append(rider_events, Event(r, "ExitGate", "exit", Head(queue).time))
    /\ queue' = ProcessEnd(Tail(queue), Head(queue).time, r)
    /\ rpc' = [rpc EXCEPT ![r] = "done"]
    /\ UNCHANGED <<pc, params, users, put_queue, queue_stats, zone_stats, riders_in_queue,
                   inst_exit_time, last_exp_exit_time, total_sim_time, current_time, ipc,
                   result>>

\* ---------------------------------------------------------------- samplers
\* A list of samples {'time': t, <key>: v} is kept run-length encoded, without
\* loss: one entry stands for count consecutive samples of the same value whose
\* times start at time and lie step apart.  The list the program holds is
\* Samples(log).
LastSampleTime(run) == run.time + (run.count - 1) * run.step

Extends(run, t, v) ==
    /\ run.value = v
    /\ run.count = 1 \/ t - LastSampleTime(run) = run.step

\* list.append({'time': t, <key>: v})
AppendSample(log, t, v) ==
    IF log # <<>> /\ Extends(log[Len(log)], t, v)
    THEN [log EXCEPT ![Len(log)] =
             [time  |-> @.time,
              step  |-> t - LastSampleTime(@),
              count |-> @.count + 1,
              value |-> @.value]]
    ELSE Append(log, [time |-> t, step |-> 0, count |-> 1, value |-> v])

\* the sampler's local current_time after this resumption: 0 at the start,
\* advanced by 0.5 after every timeout
NextCurrentTime(p) ==
    IF Head(queue).kind = "Initialize" THEN 0 ELSE current_time[p] + SampleInterval

SamplerStep(p) ==
    /\ pc = "running"
    /\ queue # <<>>
    /\ Head(queue).kind \in {"Initialize", "Timeout"}
    /\ Head(queue).proc = p
    /\ now' = Head(queue).time
    /\ current_time' = [current_time EXCEPT ![p] = NextCurrentTime(p)]
    /\ queue' = IF NextCurrentTime(p) < max_time
                THEN Timeout(Tail(queue), Head(queue).time, SampleInterval, p)
                ELSE ProcessEnd(Tail(queue), Head(queue).time, p)

\* track_queue, lines 43-54
track_queue ==
    /\ SamplerStep(TrackQueueProc)
    /\ queue_stats' =
          IF NextCurrentTime(TrackQueueProc) < max_time
          THEN AppendSample(queue_stats, Head(queue).time, riders_in_queue)
          ELSE queue_stats
    /\ UNCHANGED <<pc, params, users, put_queue, rider_events, zone_stats, riders_in_queue,
                   inst_exit_time, last_exp_exit_time, total_sim_time, rpc, ipc, result>>

\* track_zone_utilization, lines 56-67; utilization is the ratio
\* resource.count / resource.capacity, kept as <<count, capacity>>
track_zone_utilization(z) ==
    /\ SamplerStep(TrackZoneProc(z))
    /\ zone_stats' =
          IF NextCurrentTime(TrackZoneProc(z)) < max_time
          THEN [zone_stats EXCEPT ![z] =
                   AppendSample(@, Head(queue).time, <<Len(users[z]), params.capZone>>)]
          ELSE zone_stats
    /\ UNCHANGED <<pc, params, users, put_queue, rider_events, queue_stats, riders_in_queue,
                   inst_exit_time, last_exp_exit_time, total_sim_time, rpc, ipc, result>>

\* --------------------------------------------------------------- injectors
\* for i in range(1, n + 1): self.env.process(self.rider_process(f"{type}-{i}", type))
RECURSIVE Staggered(_, _, _, _, _)
Staggered(q, t, type, i, n) ==
    IF i > n THEN q
    ELSE Staggered(Schedule(q, Ev(t + i - 1, URGENT, "Initialize", <<type, i>>, "")),
                   t, type, i + 1, n)

\* mutant: the riders of a batch start one tick after one another
SpawnAllStaggered(q, t, type, n) == Staggered(q, t, type, 1, n)

\* (range(1, n + 1) has max(n, 0) elements)
SpawnAll(q, t, type, n) ==
    LET m == IF n < 0 THEN 0 ELSE n
    IN  ProcessAll(q, t, [i \in 1..m |-> <<type, i>>])

Spawned(type, n) == {<<type, i>> : i \in 1..n}

\* mutant: the injector waits as long as the Instructor stays in the gate
ExpDelayGateTime == params.tEnter

\* inject_exp_riders, lines 122-126: the delay is read when the process starts
ExpDelay == IF inst_exit_time = Unset THEN 0 ELSE inst_exit_time

InjectExpStart ==
    /\ Stepping("Initialize") /\ Head(queue).proc = InjectExpProc
    /\ inst_exit_time' = ExpDelay
    /\ queue' = Timeout(Tail(queue), Head(queue).time, ExpDelay, InjectExpProc)
    /\ ipc' = [ipc EXCEPT ![InjectExpProc] = "wait"]
    /\ UNCHANGED <<pc, params, users, put_queue, rider_events, queue_stats, zone_stats,
                   riders_in_queue, last_exp_exit_time, total_sim_time, rpc, current_time,
                   result>>

\* inject_exp_riders, lines 128-130
InjectExpSpawn ==
    /\ Stepping("Timeout") /\ Head(queue).proc = InjectExpProc
    /\ LET t == Head(queue).time
       IN  queue' = ProcessEnd(SpawnAll(Tail(queue), t, "EXP", params.nEXP),
                               t, InjectExpProc)
    /\ rpc' = [r \in Riders |-> IF r \in Spawned("EXP", params.nEXP) THEN "init" ELSE rpc[r]]
    /\ ipc' = [ipc EXCEPT ![InjectExpProc] = "done"]
    /\ UNCHANGED <<pc, params, users, put_queue, rider_events, queue_stats, zone_stats,
                   riders_in_queue, inst_exit_time, last_exp_exit_time, total_sim_time,
                   current_time, result>>

\* inject_foc_riders, lines 134-143: last_exp_exit_time is set in __init__, so
\* the hasattr branch is not taken; the delay is read when the process starts
FocDelay ==
    IF last_exp_exit_time = Unset
    THEN IF params.nEXP = 0
         THEN (IF inst_exit_time = Unset THEN 0 ELSE inst_exit_time)
         ELSE 0
    ELSE last_exp_exit_time

InjectFocStart ==
    /\ Stepping("Initialize") /\ Head(queue).proc = InjectFocProc
    /\ last_exp_exit_time' = FocDelay
    /\ queue' = Timeout(Tail(queue), Head(queue).time, FocDelay, InjectFocProc)
    /\ ipc' = [ipc EXCEPT ![InjectFocProc] = "wait"]
    /\ UNCHANGED <<pc, params, users, put_queue, rider_events, queue_stats, zone_stats,
                   riders_in_queue, inst_exit_time, total_sim_time, rpc, current_time,
                   result>>

\* inject_foc_riders, lines 145-147
InjectFocSpawn ==
    /\ Stepping("Timeout") /\ Head(queue).proc = InjectFocProc
    /\ LET t == Head(queue).time
       IN  queue' = ProcessEnd(SpawnAll(Tail(queue), t, "FOC", params.nFOC),
                               t, InjectFocProc)
    /\ rpc' = [r \in Riders |-> IF r \in Spawned("FOC", params.nFOC) THEN "init" ELSE rpc[r]]
    /\ ipc' = [ipc EXCEPT ![InjectFocProc] = "done"]
    /\ UNCHANGED <<pc, params, users, put_queue, rider_events, queue_stats, zone_stats,
                   riders_in_queue, inst_exit_time, last_exp_exit_time, total_sim_time,
                   current_time, result>>

\* ------------------------------------------------- events without a process
\* mutant: a release wakes nobody
ReleaseWakesNobody ==
    /\ Stepping("Release")
    /\ queue' = Tail(queue)
    /\ UNCHANGED <<pc, params, users, put_queue, rider_events, queue_stats, zone_stats,
                   riders_in_queue, inst_exit_time, last_exp_exit_time, total_sim_time,
                   rpc, current_time, ipc, result>>

\* a Release event is processed: its callback _trigger_put grants the slot to
\* the head of the resource's put_queue
ReleaseProcessed ==
    /\ Stepping("Release")
    /\ LET z == Head(queue).zone
           s == TriggerPut(ResState(z, Tail(queue)), z, Head(queue).time, params.capZone)
       IN  /\ users' = [users EXCEPT ![z] = s.users]
           /\ put_queue' = [put_queue EXCEPT ![z] = s.put_queue]
           /\ queue' = s.queue
    /\ UNCHANGED <<pc, params, rider_events, queue_stats, zone_stats, riders_in_queue,
                   inst_exit_time, last_exp_exit_time, total_sim_time, rpc, current_time,
                   ipc, result>>

\* the event of a process that has returned: nothing waits for it
ProcessEnded ==
    /\ Stepping("ProcessEnd")
    /\ queue' = Tail(queue)
    /\ UNCHANGED <<pc, params, users, put_queue, rider_events, queue_stats, zone_stats,
                   riders_in_queue, inst_exit_time, last_exp_exit_time, total_sim_time,
                   rpc, current_time, ipc, result>>

\* mutant: the time of the first event instead of the largest
FirstEventTime(evs) == IF evs = <<>> THEN 0 ELSE evs[1].time

\* run(), lines 172-176: max(event['time'] for event in self.rider_events)
MaxEventTime(evs) ==
    IF evs = <<>> THEN 0
    ELSE CHOOSE m \in {evs[i].time : i \in 1..Len(evs)} :
             \A i \in 1..Len(evs) : evs[i].time <= m

\* run(), lines 178-183: the dictionary returned
RunResult(evs, qs, zs, tt) ==
    [events |-> evs, queue_stats |-> qs, zone_stats |-> zs, total_time |-> tt]

\* the stop event of env.run(until=...) is processed: StopSimulation ends
\* env.run, and run() computes total_sim_time and returns
StopSimulation ==
    /\ Stepping("Until")
    /\ queue' = Tail(queue)
    /\ total_sim_time' = MaxEventTime(rider_events)
    /\ result' = RunResult(rider_events, queue_stats, zone_stats, MaxEventTime(rider_events))
    /\ pc' = "returned"
    /\ UNCHANGED <<params, users, put_queue, rider_events, queue_stats, zone_stats,
                   riders_in_queue, inst_exit_time, last_exp_exit_time, rpc, current_time,
                   ipc>>

Next ==
    \/ Construct
    \/ ConstructError
    \/ RunStart
    \/ \E r \in Riders :
          \/ RiderEnterQueue(r)
          \/ RiderGate(r)
          \/ RiderZoneA(r)
          \/ RiderLeaveA(r)
          \/ RiderZoneB(r)
          \/ RiderLeaveB(r)
          \/ RiderZoneC(r)
          \/ RiderLeaveC(r)
          \/ RiderFinish(r)
    \/ track_queue
    \/ \E z \in Zones : track_zone_utilization(z)
    \/ InjectExpStart
    \/ InjectExpSpawn
    \/ InjectFocStart
    \/ InjectFocSpawn
    \/ ReleaseProcessed
    \/ ProcessEnded
    \/ StopSimulation

Spec == Init /\ [][Next]_vars

\* The runs with the largest batches, for every capacity and every choice of
\* dwell times.
LiveConfigs == {c \in Configs : c.nEXP = MaxEXP /\ c.nFOC = MaxFOC}

LiveInit == Init /\ params \in LiveConfigs

\* the loop of env.run keeps calling env.step() while the schedule is not
\* empty and the stop event has not been processed
FairSpec == LiveInit /\ [][Next]_vars /\ WF_vars(Next)

\* =================================================================== claims
\* the riders of the run: the Instructor, nEXP Experienced, nFOC Focus
Expected == {INST} \cup Spawned("EXP", params.nEXP) \cup Spawned("FOC", params.nFOC)

AllDone == \A r \in Expected : rpc[r] = "done"

Is(e, r, zone, action) == e.rider_id = r /\ e.zone = zone /\ e.action = action

\* the positions in the log of the event (r, zone, action)
Indexes(r, zone, action) ==
    {i \in 1..Len(rider_events) : Is(rider_events[i], r, zone, action)}

Logged(r, zone, action) == Indexes(r, zone, action) # {}

TimeOf(r, zone, action) ==
    rider_events[CHOOSE i \in Indexes(r, zone, action) : TRUE].time

\* the positions of the EnterGate-enter events of the riders of one type
GateEnters(type) ==
    {i \in 1..Len(rider_events) :
        /\ rider_events[i].rider_type = type
        /\ rider_events[i].zone = "EnterGate"
        /\ rider_events[i].action = "enter"}

\* dwell times of the concrete scenario: tEnter = 0.5, tA = tB = tC = 5, tExit = 0.5
ScenarioTimes ==
    /\ 2 * params.tEnter = TicksPerUnit
    /\ params.tA = 5 * TicksPerUnit
    /\ params.tB = 5 * TicksPerUnit
    /\ params.tC = 5 * TicksPerUnit
    /\ 2 * params.tExit = TicksPerUnit

CourseTime == params.tEnter + params.tA + params.tB + params.tC + params.tExit

\* ----------------------------------------------------------------------- C1
\* C1: in every reachable state each of the three pools zone_a, zone_b, zone_c
\* holds at least 0 and at most capZone slots.
C1_CapacityInvariant ==
    \A z \in Zones : Len(users[z]) >= 0 /\ Len(users[z]) <= params.capZone

\* a pool of capacity 2 is full and a rider waits for it
C1_Witness ==
    \E z \in Zones :
        /\ params.capZone >= 2
        /\ Len(users[z]) = params.capZone
        /\ put_queue[z] # <<>>

\* ----------------------------------------------------------------------- C2
\* C2: no Experienced rider logs EnterGate-enter before the Instructor has
\* logged ExitGate-exit (Gate-enter time of EXP-i >= finish time of INST-1).
C2_ExpAfterInstructorFinished ==
    LET fin == Indexes(INST, "ExitGate", "exit")
    IN  \A i \in GateEnters("EXP") :
            \E j \in fin : j < i /\ rider_events[j].time <= rider_events[i].time

\* ----------------------------------------------------------------------- C3
\* C3: with nEXP >= 1, no Focus rider logs EnterGate-enter before every
\* Experienced rider has logged ExitGate-exit.
C3_FocAfterExperiencedFinished ==
    params.nEXP >= 1 =>
        \A i \in GateEnters("FOC") :
            \A r \in Spawned("EXP", params.nEXP) :
                \E j \in Indexes(r, "ExitGate", "exit") :
                    j < i /\ rider_events[j].time <= rider_events[i].time

Holds(r, z) == \E i \in 1..Len(users[z]) : users[z][i] = r

ContentionScenario ==
    params.capZone = 1 /\ params.nEXP = 2 /\ params.nFOC = 0 /\ ScenarioTimes

EventOrder ==
    << <<"Queue", "enter">>, <<"Queue", "exit">>,
       <<"EnterGate", "enter">>, <<"EnterGate", "exit">>,
       <<"ZoneA", "enter">>, <<"ZoneA", "exit">>,
       <<"ZoneB", "enter">>, <<"ZoneB", "exit">>,
       <<"ZoneC", "enter">>, <<"ZoneC", "exit">>,
       <<"ExitGate", "enter">>, <<"ExitGate", "exit">> >>

EventsOf(r) ==
    LET mine(e) == e.rider_id = r
    IN  SelectSeq(rider_events, mine)

\* C6: in every prefix of the log the events of one rider are a prefix of the
\* fixed sequence Queue-enter .. Exit-exit (so each occurs at most once and an
\* enter precedes its exit) and their timestamps do not decrease.
C6_PerRiderEventOrder ==
    \A r \in Riders :
        LET evs == EventsOf(r)
        IN  /\ Len(evs) <= Len(EventOrder)
            /\ \A k \in 1..Len(evs) :
                  /\ <<evs[k].zone, evs[k].action>> = EventOrder[k]
                  /\ k > 1 => evs[k - 1].time <= evs[k].time

\* two riders have logged all their events, interleaved in the log
C6_Witness ==
    \E r1, r2 \in Riders :
        /\ r1 # r2
        /\ Len(EventsOf(r1)) = Len(EventOrder)
        /\ Len(EventsOf(r2)) = Len(EventOrder)
        /\ \E i \in Indexes(r2, "Queue", "enter") :
              \E j \in Indexes(r1, "ExitGate", "exit") : i < j

\* ----------------------------------------------------------------------- C7
LastTimes(log) == IF log = <<>> THEN {} ELSE {LastSampleTime(log[Len(log)])}

\* C7: once the last rider has finished, virtual time does not advance and no
\* queue or zone-utilization sample carries a time later than the last
\* Exit-exit time.
C7_ClockStopsAtCompletion ==
    AllDone =>
        /\ now <= MaxEventTime(rider_events)
        /\ \A t \in LastTimes(queue_stats) : t <= MaxEventTime(rider_events)
        /\ \A z \in Zones :
              \A t \in LastTimes(zone_stats[z]) : t <= MaxEventTime(rider_events)

\* ----------------------------------------------------------------------- C8
\* the keys of the dictionary a completed run returns
CompletedResultKeys == DOMAIN RunResult(<<>>, <<>>, <<>>, 0)

\* C8: a run that returns at the ceiling with an unfinished rider returns a
\* result that differs in kind from the result of a completed run.
C8_IncompleteRunDistinguishable ==
    (pc = "returned" /\ ~AllDone) => DOMAIN result # CompletedResultKeys

\* ----------------------------------------------------------------------- C9
\* a rider is asleep until the ceiling or later: the run needs more virtual
\* time than the ceiling allows
NeedsCeiling ==
    \E i \in 1..Len(queue) :
        /\ queue[i].kind = "Timeout"
        /\ queue[i].proc \in Expected
        /\ queue[i].time >= max_simulation_time

\* an upper bound of the virtual time the run needs: one rider after the other
SerialTime == Cardinality(Expected) * CourseTime

FinishedCount == Cardinality({r \in Riders : rpc[r] = "done"})

RunOver == pc = "error" \/ (pc = "returned" /\ (AllDone \/ NeedsCeiling))

FitsSerially == params.capZone >= 1 /\ SerialTime < max_simulation_time

EveryRiderFinished ==
    pc = "returned" /\ AllDone /\ FinishedCount = 1 + params.nEXP + params.nFOC

\* C9: a run ends, and it ends with every rider finished unless a rider's dwell
\* reaches the ceiling (no rider is left waiting for a pool); a run whose riders
\* fit under the ceiling even one after the other ends with 1+nEXP+nFOC riders
\* finished.
C9_EveryRiderFinishes ==
    /\ <>RunOver
    /\ FitsSerially ~> EveryRiderFinished

\* every rider has finished and one of them had to wait for a pool on the way
C9_Witness ==
    /\ pc = "returned"
    /\ AllDone
    /\ params.nEXP >= 1
    /\ \E r \in Expected :
          TimeOf(r, "Queue", "enter") < TimeOf(r, "Queue", "exit")

\* ---------------------------------------------------------------------- C10
InstructorOnly == params.nEXP = 0 /\ params.nFOC = 0

TwelveInstructorEvents ==
    /\ Len(result.events) = 12
    /\ \A i \in 1..Len(result.events) : result.events[i].rider_type = "INST"
    /\ \A k \in 1..Len(EventOrder) :
          \E i \in 1..Len(result.events) :
              <<result.events[i].zone, result.events[i].action>> = EventOrder[k]
    /\ result.total_time = CourseTime

\* C10 as stated: with nEXP = 0 and nFOC = 0 the returned log has exactly 12
\* events, all of the Instructor, and totalTime = tEnter+tA+tB+tC+tExit.
C10_InstructorOnlyRun ==
    (pc = "returned" /\ InstructorOnly) => TwelveInstructorEvents

\* C10 amended: the same, for dwell times with tEnter+tA+tB+tC+tExit below the
\* ceiling of 1000.
C10_InstructorOnlyRunUnderCeiling ==
    (pc = "returned" /\ InstructorOnly /\ CourseTime < max_simulation_time)
        => TwelveInstructorEvents

\* the concrete scenario has returned: totalTime is 16.0
C10_Witness ==
    /\ pc = "returned"
    /\ InstructorOnly
    /\ params.capZone = 1
    /\ ScenarioTimes
    /\ result.total_time = 16 * TicksPerUnit

\* ---------------------------------------------------------------------- C11
ConcreteScenario == params.capZone = 1 /\ InstructorOnly /\ ScenarioTimes

StrictlyIncreasing(evs) ==
    \A i \in 1..(Len(evs) - 1) : evs[i].time < evs[i + 1].time

\* C11 as stated: in the concrete scenario the 12 Instructor events have
\* strictly increasing timestamps.
C11_StrictlyIncreasingTimes ==
    ConcreteScenario => StrictlyIncreasing(rider_events)

\* the timestamps of the concrete scenario: 0, 0, 0, 0.5, 0.5, 5.5, 5.5, 10.5,
\* 10.5, 15.5, 15.5, 16.0
ScenarioTimestamps ==
    [k \in 1..12 |->
        IF k <= 3 THEN 0
        ELSE IF k <= 5 THEN params.tEnter
        ELSE IF k <= 7 THEN params.tEnter + params.tA
        ELSE IF k <= 9 THEN params.tEnter + params.tA + params.tB
        ELSE IF k <= 11 THEN params.tEnter + params.tA + params.tB + params.tC
        ELSE CourseTime]

\* C11 amended: in the concrete scenario the timestamps of the Instructor's
\* events never decrease, and they increase exactly at Gate-exit, ZoneA-exit,
\* ZoneB-exit, ZoneC-exit and Exit-exit; an exit and the enter that follows
\* it, and Queue-enter, Queue-exit and Gate-enter, share a timestamp.
C11_NonDecreasingTimes ==
    ConcreteScenario =>
        /\ Len(rider_events) <= 12
        /\ \A k \in 1..Len(rider_events) :
              /\ rider_events[k].time = ScenarioTimestamps[k]
              /\ k > 1 => rider_events[k - 1].time <= rider_events[k].time
              /\ (k > 1 /\ rider_events[k].action = "exit" /\ rider_events[k].zone # "Queue")
                    => rider_events[k - 1].time < rider_events[k].time
              /\ (k > 1 /\ rider_events[k].action = "enter")
                    => rider_events[k - 1].time = rider_events[k].time

\* the Instructor of the concrete scenario has logged all 12 events
C11_Witness ==
    ConcreteScenario /\ Len(rider_events) = 12 /\ ~StrictlyIncreasing(rider_events)

\* ---------------------------------------------------------------------- C12
\* the positions of the Queue-enter events of the riders of one type
QueueEnters(type) ==
    {i \in 1..Len(rider_events) :
        /\ rider_events[i].rider_type = type
        /\ rider_events[i].zone = "Queue"
        /\ rider_events[i].action = "enter"}

\* C12: no Experienced rider logs Queue-enter at a time earlier than the
\* Instructor's EnterGate-exit time.
C12_ExpSpawnedAfterInstructorGate ==
    LET out == Indexes(INST, "EnterGate", "exit")
    IN  \A i \in QueueEnters("EXP") :
            \E j \in out : j < i /\ rider_events[j].time <= rider_events[i].time

\* ---------------------------------------------------------------------- C13
\* C13: with nEXP >= 1, no Focus rider logs Queue-enter at a time earlier than
\* the EnterGate-exit time of the last Experienced rider.
C13_FocSpawnedAfterExperiencedGate ==
    params.nEXP >= 1 =>
        \A i \in QueueEnters("FOC") :
            \A r \in Spawned("EXP", params.nEXP) :
                \E j \in Indexes(r, "EnterGate", "exit") :
                    j < i /\ rider_events[j].time <= rider_events[i].time

\* ---------------------------------------------------------------------- C14
\* C14: with nEXP = 0 and nFOC >= 1 every Focus rider's Gate-enter time is at
\* least the Instructor's finish time.
C14_FocAfterInstructorFinished ==
    (params.nEXP = 0 /\ params.nFOC >= 1) =>
        LET fin == Indexes(INST, "ExitGate", "exit")
        IN  \A i \in GateEnters("FOC") :
                \E j \in fin : j < i /\ rider_events[j].time <= rider_events[i].time

\* ---------------------------------------------------------------------- C15
\* no process exists, nothing is scheduled and nothing is recorded
NothingStarted ==
    /\ queue = <<>>
    /\ \A r \in Riders : rpc[r] = "none"
    /\ \A i \in Injectors : ipc[i] = "none"
    /\ \A p \in Samplers : current_time[p] = 0
    /\ \A z \in Zones : users[z] = <<>> /\ put_queue[z] = <<>>

NothingRecorded ==
    /\ rider_events = <<>>
    /\ queue_stats = <<>>
    /\ \A z \in Zones : zone_stats[z] = <<>>
    /\ riders_in_queue = 0
    /\ result = <<>>

\* C15: a configuration with capZone < 1 is rejected at construction: the
\* program goes from new to error and nowhere else, no rider, injector or
\* sampler process is ever started and no event or sample is ever recorded.
C15_CapacityRejected ==
    params.capZone < 1 =>
        /\ pc \in {"new", "error"}
        /\ NothingStarted
        /\ NothingRecorded

\* the construction with a capacity below 1 has failed
C15_Witness == params.capZone < 1 /\ pc = "error"

\* ---------------------------------------------------------------------- C16
NegativeBatch == params.nEXP < 0 \/ params.nFOC < 0

\* C16: a configuration with nEXP < 0 or nFOC < 0 is rejected before any
\* process starts; it never records an event or a sample and never returns a
\* normal result.
C16_NegativeBatchRejected ==
    NegativeBatch =>
        /\ pc \in {"new", "error"}
        /\ NothingStarted
        /\ NothingRecorded

\* ---------------------------------------------------------------------- C17
\* the steps of Next that can be taken in the current state
EnabledRiderSteps ==
    UNION { (IF ENABLED RiderEnterQueue(r) THEN {<<"RiderEnterQueue", r>>} ELSE {})
            \cup (IF ENABLED RiderGate(r) THEN {<<"RiderGate", r>>} ELSE {})
            \cup (IF ENABLED RiderZoneA(r) THEN {<<"RiderZoneA", r>>} ELSE {})
            \cup (IF ENABLED RiderLeaveA(r) THEN {<<"RiderLeaveA", r>>} ELSE {})
            \cup (IF ENABLED RiderZoneB(r) THEN {<<"RiderZoneB", r>>} ELSE {})
            \cup (IF ENABLED RiderLeaveB(r) THEN {<<"RiderLeaveB", r>>} ELSE {})
            \cup (IF ENABLED RiderZoneC(r) THEN {<<"RiderZoneC", r>>} ELSE {})
            \cup (IF ENABLED RiderLeaveC(r) THEN {<<"RiderLeaveC", r>>} ELSE {})
            \cup (IF ENABLED RiderFinish(r) THEN {<<"RiderFinish", r>>} ELSE {}) : r \in Riders }

EnabledSteps ==
    EnabledRiderSteps
    \cup (IF ENABLED Construct THEN {<<"Construct">>} ELSE {})
    \cup (IF ENABLED ConstructError THEN {<<"ConstructError">>} ELSE {})
    \cup (IF ENABLED RunStart THEN {<<"RunStart">>} ELSE {})
    \cup (IF ENABLED track_queue THEN {<<"track_queue">>} ELSE {})
    \cup UNION { IF ENABLED track_zone_utilization(z) THEN {<<"track_zone_utilization", z>>} ELSE {} :
                   z \in Zones }
    \cup (IF ENABLED InjectExpStart THEN {<<"InjectExpStart">>} ELSE {})
    \cup (IF ENABLED InjectExpSpawn THEN {<<"InjectExpSpawn">>} ELSE {})
    \cup (IF ENABLED InjectFocStart THEN {<<"InjectFocStart">>} ELSE {})
    \cup (IF ENABLED InjectFocSpawn THEN {<<"InjectFocSpawn">>} ELSE {})
    \cup (IF ENABLED ReleaseProcessed THEN {<<"ReleaseProcessed">>} ELSE {})
    \cup (IF ENABLED ProcessEnded THEN {<<"ProcessEnded">>} ELSE {})
    \cup (IF ENABLED StopSimulation THEN {<<"StopSimulation">>} ELSE {})

\* C17: in every reachable state at most one step can be taken: the step of
\* the one process the head of the schedule belongs to.  Every step gives each
\* variable a value computed from the current state, and all variables but
\* params have one initial value, so a configuration has one behaviour and
\* two runs of it return the same events, samples and total time.  Events of
\* one timestamp are taken in the order of the schedule, never by choice.
C17_Deterministic ==
    /\ Cardinality(EnabledSteps) <= 1
    /\ (pc = "running" /\ queue # <<>>) => Cardinality(EnabledSteps) = 1
    /\ pc = "new" =>
          /\ now = 0 /\ queue = <<>> /\ NothingStarted /\ NothingRecorded
          /\ inst_exit_time = Unset /\ last_exp_exit_time = 0 /\ total_sim_time = 0

\* two events of two processes have the same time and the same priority at
\* the head of the schedule, and one step can be taken
C17_Witness ==
    /\ pc = "running"
    /\ Len(queue) >= 2
    /\ queue[1].time = queue[2].time
    /\ queue[1].priority = queue[2].priority
    /\ queue[1].proc[1] \in {"EXP", "FOC"}
    /\ queue[2].proc[1] \in {"EXP", "FOC"}
    /\ queue[1].proc # queue[2].proc
    /\ Cardinality(EnabledSteps) = 1

\* ---------------------------------------------------------------------- C18
\* the event a rider logs just before it requests the pool of zone z, and the
\* event it logs when the request is granted
RequestMark(z) ==
    IF z = "A" THEN <<"Queue", "enter">>
    ELSE IF z = "B" THEN <<"ZoneA", "exit">> ELSE <<"ZoneB", "exit">>

GrantMark(z) ==
    IF z = "A" THEN <<"EnterGate", "enter">>
    ELSE IF z = "B" THEN <<"ZoneB", "enter">> ELSE <<"ZoneC", "enter">>

\* the events with the given mark, in the order of the log
Marked(mark) ==
    SelectSeq(rider_events, LAMBDA e : e.zone = mark[1] /\ e.action = mark[2])

IsPrefixBy(a, b) ==
    /\ Len(a) <= Len(b)
    /\ \A i \in 1..Len(a) : a[i].rider_id = b[i].rider_id

\* C18: for each pool the riders are granted a slot in the order in which they
\* requested it: the k-th grant goes to the k-th requester, whatever its type,
\* so a rider that requested earlier is granted no later and no waiting rider
\* is overtaken.
C18_FifoPools ==
    \A z \in Zones :
        LET req == Marked(RequestMark(z))
            grant == Marked(GrantMark(z))
        IN  /\ IsPrefixBy(grant, req)
            /\ \A i \in 1..(Len(grant) - 1) : grant[i].time <= grant[i + 1].time
            /\ \A i \in 1..Len(grant) : req[i].time <= grant[i].time

\* a pool has granted a slot to a rider that had to wait for it, while riders
\* of two types that requested later are still waiting
C18_Witness ==
    \E z \in Zones :
        LET req == Marked(RequestMark(z))
            grant == Marked(GrantMark(z))
        IN  /\ Len(grant) >= 2
            /\ req[Len(grant)].time < grant[Len(grant)].time
            /\ Len(put_queue[z]) >= 2
            /\ put_queue[z][1][1] # put_queue[z][2][1]

\* ---------------------------------------------------------------------- C19
\* the Queue-enter timestamps of the riders of one type
SpawnTimes(type) == {rider_events[i].time : i \in QueueEnters(type)}

\* C19: all riders of one batch are spawned at the same virtual instant: the
\* Experienced riders share one Queue-enter timestamp and the Focus riders
\* share one.
C19_SameInstantSpawn ==
    \A type \in {"EXP", "FOC"} : Cardinality(SpawnTimes(type)) <= 1

\* two Experienced riders were spawned at one instant and passed the gate at
\* different times
C19_Witness ==
    /\ params.nEXP >= 2
    /\ Cardinality(QueueEnters("EXP")) = 2
    /\ Logged(<<"EXP", 1>>, "EnterGate", "enter")
    /\ Logged(<<"EXP", 2>>, "EnterGate", "enter")
    /\ TimeOf(<<"EXP", 1>>, "EnterGate", "enter") < TimeOf(<<"EXP", 2>>, "EnterGate", "enter")

\* ---------------------------------------------------------------------- C20
\* the riders that have logged Queue-enter and not yet Queue-exit
WaitingCount ==
    Len(Marked(<<"Queue", "enter">>)) - Len(Marked(<<"Queue", "exit">>))

\* the samples of a log are SampleInterval apart, the first one at time 0
EvenlySpaced(log) ==
    /\ log # <<>> => log[1].time = 0
    /\ \A k \in 1..Len(log) :
          /\ log[k].count > 1 => log[k].step = SampleInterval
          /\ k > 1 => log[k].time - LastSampleTime(log[k - 1]) = SampleInterval

BookkeepingExact ==
    /\ riders_in_queue >= 0
    /\ riders_in_queue = WaitingCount
    /\ riders_in_queue = Len(put_queue["A"])
                         + Cardinality({i \in 1..Len(queue) :
                               queue[i].kind = "Request" /\ queue[i].zone = "A"})
    /\ EvenlySpaced(queue_stats)

\* a step that adds a queue sample adds the pair of the time of the step and
\* the number of riders waiting for the entry gate at that step
SampleIsExact ==
    queue_stats' # queue_stats =>
        LET last == queue_stats'[Len(queue_stats')]
        IN  /\ LastSampleTime(last) = now'
            /\ last.value = WaitingCount
            /\ WaitingCount' = WaitingCount

\* C20: riders_in_queue is never negative and equals the number of riders that
\* have logged Queue-enter and not yet Queue-exit (the riders whose zone_a
\* request is pending or granted and not yet taken up); every queue sample
\* records that number at the time it is taken, and consecutive samples are
\* 0.5 time units apart, starting at time 0.
C20_QueueBookkeeping == []BookkeepingExact /\ [][SampleIsExact]_vars

\* the queue samples have recorded two riders waiting over several samples and
\* fewer riders later
C20_Witness ==
    \E k \in 1..(Len(queue_stats) - 1) :
        /\ queue_stats[k].value >= 2
        /\ queue_stats[k].count >= 2
        /\ queue_stats[k + 1].value < queue_stats[k].value
        /\ riders_in_queue = queue_stats[k + 1].value

\* ---------------------------------------------------------------------- C21
\* the wake-up events of the injectors that are still waiting
InjectorWakeUps ==
    {i \in 1..Len(queue) : queue[i].kind = "Timeout" /\ queue[i].proc \in Injectors}

BatchOrder ==
    LET e == IF params.nEXP < 0 THEN 0 ELSE params.nEXP
        f == IF params.nFOC < 0 THEN 0 ELSE params.nFOC
    IN  <<INST>> \o [i \in 1..e |-> <<"EXP", i>>] \o [i \in 1..f |-> <<"FOC", i>>]

\* C22: the EnterGate-enter events appear in the log in the order INST-1,
\* EXP-1, ..., EXP-nEXP, FOC-1, ..., FOC-nFOC, and so do the Queue-enter
\* events (the spawn order) from which FIFO granting produces it.
C22_GateOrderIsBatchOrder ==
    LET gate == Marked(<<"EnterGate", "enter">>)
        spawn == Marked(<<"Queue", "enter">>)
    IN  /\ Len(spawn) <= Len(BatchOrder)
        /\ Len(gate) <= Len(spawn)
        /\ \A k \in 1..Len(spawn) : spawn[k].rider_id = BatchOrder[k]
        /\ \A k \in 1..Len(gate) : gate[k].rider_id = BatchOrder[k]

\* riders of all three batches have entered the gate, two of them at one time
C22_Witness ==
    LET gate == Marked(<<"EnterGate", "enter">>)
    IN  /\ Len(gate) = Len(BatchOrder)
        /\ params.nEXP >= 1 /\ params.nFOC >= 1
        /\ \E k \in 1..(Len(gate) - 1) : gate[k].time = gate[k + 1].time

\* ---------------------------------------------------------------------- C23
\* the events between which a rider occupies the part of the track that the
\* pool of zone z guards
OccupyMark(z) ==
    IF z = "A" THEN <<"EnterGate", "enter">>
    ELSE IF z = "B" THEN <<"ZoneB", "enter">> ELSE <<"ZoneC", "enter">>

LeaveMark(z) ==
    IF z = "A" THEN <<"ZoneA", "exit">>
    ELSE IF z = "B" THEN <<"ZoneB", "exit">> ELSE <<"ZoneC", "exit">>

\* the riders that have logged the first event and not yet the second
Occupancy(z) == Len(Marked(OccupyMark(z))) - Len(Marked(LeaveMark(z)))

\* the grants of the pool of zone z that the rider has not yet taken up
GrantsInFlight(z) ==
    Cardinality({i \in 1..Len(queue) : queue[i].kind = "Request" /\ queue[i].zone = z})

\* C23: by the event log, the number of riders in the entry gate or in Zone A
\* (EnterGate-enter logged, ZoneA-exit not yet), the number in Zone B and the
\* number in Zone C are each at most capZone; each is the number of slots of
\* the pool that are held, less the grants not yet taken up.
C23_OccupancyByLog ==
    \A z \in Zones :
        /\ Occupancy(z) >= 0
        /\ Occupancy(z) <= params.capZone
        /\ Occupancy(z) = Len(users[z]) - GrantsInFlight(z)

\* the entry gate with Zone A and Zone B are both full, with more than one rider
C23_Witness ==
    /\ params.capZone >= 2
    /\ Occupancy("A") = params.capZone
    /\ Occupancy("B") = params.capZone

\* ---------------------------------------------------------------------- C24
\* the events by which the order of the riders on the track is observed
TrackMarks ==
    {<<"ZoneA", "enter">>, <<"ZoneB", "enter">>, <<"ZoneC", "enter">>,
     <<"ExitGate", "enter">>, <<"ExitGate", "exit">>}

\* C24: no overtaking on the track: the riders log ZoneB-enter, ZoneC-enter
\* and ExitGate-exit (and the events in between) in the order in which they
\* logged EnterGate-enter, so they finish in the order in which they passed
\* the gate.
C24_NoOvertaking ==
    LET gate == Marked(<<"EnterGate", "enter">>)
    IN  \A m \in TrackMarks : IsPrefixBy(Marked(m), gate)

\* all riders of a run with several riders sharing the zones have finished,
\* and two of them entered Zone B at one time
C24_Witness ==
    LET done == Marked(<<"ExitGate", "exit">>)
        inB == Marked(<<"ZoneB", "enter">>)
    IN  /\ params.capZone >= 2
        /\ Len(done) >= 4
        /\ \E k \in 1..(Len(inB) - 1) : inB[k].time = inB[k + 1].time
        /\ \E k \in 1..(Len(inB) - 1) : inB[k].time < inB[k + 1].time

====
